---- MODULE Spec2Model ----
(***************************************************************************)
(* The access-code ledger of backend/access_management.py: the code table  *)
(* (access_codes.json), the log table (access_logs.json) and the           *)
(* operations create / validate / list / disable / update / logs / stats,  *)
(* and the rate limiter of backend/security.py.                            *)
(*                                                                         *)
(* Time is counted in ticks since 2025-05-22T12:00:00, the literal the     *)
(* source substitutes for the clock; TicksPerYear ticks make a calendar    *)
(* year.  A string is a sequence of one-character strings, so that         *)
(* strip() and upper() are computed rather than assumed.                   *)
(*                                                                         *)
(* State:                                                                  *)
(*   codes  the code table, access code -> record                          *)
(*   logs   the log table in insertion order (an entry's id is its place)  *)
(*   now    the wall clock                                                 *)
(*   nops   the calls and clock ticks so far (bounded by MaxOps)           *)
(*   last   the latest call: its name, its argument, what it returned      *)
(*   hist   per code, what the callers have seen of it (see NewHist)       *)
(*   proc   the locals of each request thread inside validate (SpecConc)   *)
(*   request_records  the rate limiter: per (client, path) the times, in   *)
(*          seconds, of the requests it let through in the last window     *)
(*   rtime  the clock the rate limiter reads, in seconds                   *)
(*   rlast  the latest rate-limited request: its key, status, retry_after  *)
(*   admitted  per key, the times of all requests let through so far       *)
(*                                                                         *)
(* Spec runs the calls one at a time, each whole; SpecConc runs validate   *)
(* one table access a step on two threads.  Both read and write the two    *)
(* files without fault; SpecFault runs the calls one at a time and lets a  *)
(* call's file read or file write fail.  Every stored field holds a value  *)
(* of its type.  SpecLedger is Spec without update and with logs;          *)
(* SpecCreateRace runs create one table access a step on two threads,      *)
(* SpecDisableRace does so for validate and disable; SpecRate runs the     *)
(* rate limiter of backend/security.py, one request at a time.             *)
(***************************************************************************)
EXTENDS Integers, Sequences, FiniteSets, TLC

\* ---------------------------------------------------------------- bounds
MaxOps == 5

\* the requests and clock steps the rate limiter sees
MaxReq == 13

\* ------------------------------------------------------------- constants
TicksPerYear == 2
FixedRef == 0
None == -1

ACCESS_LEVELS == {"standard", "admin", "read_only"}

Perms(up, gen, adm, mod) ==
    [can_upload_images |-> up, can_generate_reports |-> gen,
     can_access_admin |-> adm, can_modify_data |-> mod]

\* the permission set of each access level
PERMISSIONS ==
    [l \in ACCESS_LEVELS |->
        CASE l = "standard" -> Perms(TRUE, TRUE, FALSE, FALSE)
          [] l = "admin" -> Perms(TRUE, TRUE, TRUE, TRUE)
          [] l = "read_only" -> Perms(FALSE, FALSE, FALSE, FALSE)]

\* ACCESS_LEVELS.get(access_level, ACCESS_LEVELS["standard"])
PermissionsFor(level) ==
    IF level \in ACCESS_LEVELS THEN PERMISSIONS[level] ELSE PERMISSIONS["standard"]

\* The alphabet of generated codes is upper-case letters and digits.
CodeSpace == {<<"A", "7">>, <<"B", "7">>}

\* What callers send as an access code.
RawCodes == {<<"A", "7">>, <<" ", "b", "7", " ">>, <<"Z", "9">>}

Users == {"ann"}
ExpiryChoices == {1, 5}
UsesChoices == {1, 2}
LevelChoices == {"standard", "guest"}

\* The field maps callers send to update.
UpdateChoices ==
    << [is_valid |-> TRUE],
       [uses_remaining |-> -1],
       [uses_remaining |-> 2],
       [expires_at |-> 0],
       [expires_at |-> 5],
       [access_level |-> "guest", assigned_to |-> "bob"],
       [access_level |-> "admin", last_used |-> 0, created_at |-> 0] >>

VARIABLES codes, logs, now, nops, last, hist, proc,
          request_records, rtime, rlast, admitted

\* the access-code ledger and its observers
ledger == <<codes, logs, now, nops, last, hist, proc>>

\* the rate limiter and its observers
web == <<request_records, rtime, rlast, admitted>>

vars == <<codes, logs, now, nops, last, hist, proc,
          request_records, rtime, rlast, admitted>>

\* ------------------------------------------------------- string helpers
UpperChar(ch) ==
    CASE ch = "a" -> "A"
      [] ch = "b" -> "B"
      [] ch = "z" -> "Z"
      [] OTHER -> ch

Upper(s) == [i \in 1..Len(s) |-> UpperChar(s[i])]

RECURSIVE LStrip(_)
LStrip(s) == IF s # <<>> /\ Head(s) = " " THEN LStrip(Tail(s)) ELSE s

RECURSIVE RStrip(_)
RStrip(s) ==
    IF s # <<>> /\ s[Len(s)] = " " THEN RStrip(SubSeq(s, 1, Len(s) - 1)) ELSE s

Strip(s) == RStrip(LStrip(s))

\* access_code.strip().upper()
Normalize(raw) == Upper(Strip(raw))

\* ------------------------------------------------------- reference time
Year(t) == t \div TicksPerYear

\* any record more than a year in the future switches the fixed date on
HasFutureDates(tbl, t) ==
    \E c \in DOMAIN tbl : Year(tbl[c].expires_at) > Year(t) + 1

ReferenceTime(tbl, t) == IF HasFutureDates(tbl, t) THEN FixedRef ELSE t

\* ---------------------------------------------------------------- tables
EmptyTable == [c \in {} |-> 0]

\* mutant: the new record is written over an empty table
Put_Alone(tbl, c, rec) == [k \in {c} |-> rec]

Put(tbl, c, rec) ==
    [k \in DOMAIN tbl \cup {c} |-> IF k = c THEN rec ELSE tbl[k]]

NoCounts ==
    [total_codes |-> 0, active_codes |-> 0, expired_codes |-> 0,
     disabled_codes |-> 0, depleted_codes |-> 0, unique_users |-> 0,
     total_logins |-> 0, recent_logins |-> 0]

NoRet == [res |-> "", uses |-> 0, level |-> "", status |-> EmptyTable,
          counts |-> NoCounts, perms |-> Perms(FALSE, FALSE, FALSE, FALSE),
          fault |-> "none", entries |-> <<>>]

\* hist is the observer's record of each code: the uses it was created with,
\* the validations of it that returned valid, whether nothing but in-time
\* validations touched it since, whether a disable of it returned success,
\* the creates that returned it, whether a disable of it returned success when
\* an earlier disable had left it disabled.
NewHist(uses) ==
    [uses0 |-> uses, succ |-> 0, clean |-> TRUE, dis |-> FALSE, made |-> 1,
     redis |-> FALSE]

Touch(c) == [hist EXCEPT ![c].clean = FALSE]

\* the request threads of the interleaved specification
Procs == {1, 2}

Idle == [pc |-> "idle", code |-> <<>>, raw |-> <<>>, tbl |-> EmptyTable,
         lg |-> <<>>, ts |-> 0]

\* ------------------------------------------------------------------ Init
Init ==
    /\ codes = EmptyTable
    /\ logs = <<>>
    /\ now = 0
    /\ nops = 0
    /\ last = [op |-> "init", arg |-> <<>>, ret |-> NoRet]
    /\ hist = EmptyTable
    /\ proc = [p \in Procs |-> Idle]
    /\ request_records = EmptyTable
    /\ rtime = 0
    /\ rlast = [n |-> 0, key |-> <<>>, status |-> 0, retry_after |-> 0]
    /\ admitted = EmptyTable

\* the wall clock moves between operations
Tick ==
    /\ nops < MaxOps
    /\ nops' = nops + 1
    /\ now' = now + 1
    /\ last' = [op |-> "tick", arg |-> <<>>, ret |-> NoRet]
    /\ UNCHANGED <<codes, logs, hist, proc, web>>

\* ---------------------------------------------------------------- create
NewCodeData(tbl, t, user, days, uses, level) ==
    [assigned_to |-> user,
     email |-> "e",
     created_at |-> ReferenceTime(tbl, t),
     expires_at |-> ReferenceTime(tbl, t) + days,
     is_valid |-> TRUE,
     uses_remaining |-> uses,
     last_used |-> None,
     notes |-> "",
     access_level |-> level]

\* mutant: the level check lets every level through
LevelAccepted_Any(level) == TRUE

LevelAccepted(level) == level \in ACCESS_LEVELS

\* mutant: the generator does not look the code up in the table
FreshCodes_NoCheck(tbl) == CodeSpace

\* the codes _generate_access_code can return: those not yet in the table
FreshCodes(tbl) == CodeSpace \ DOMAIN tbl

Create(user, days, uses, level) ==
    /\ nops < MaxOps
    /\ nops' = nops + 1
    /\ UNCHANGED <<proc, web>>
    /\ IF ~LevelAccepted(level)
       THEN /\ last' = [op |-> "create", arg |-> <<>>,
                        ret |-> [NoRet EXCEPT !.res = "None", !.level = level]]
            /\ UNCHANGED <<codes, logs, now, hist>>
       ELSE \E c \in FreshCodes(codes) :
              /\ codes' = Put(codes, c, NewCodeData(codes, now, user, days, uses, level))
              /\ hist' = Put(hist, c,
                    [NewHist(uses) EXCEPT
                        !.made = IF c \in DOMAIN hist THEN hist[c].made + 1 ELSE 1])
              /\ last' = [op |-> "create", arg |-> c,
                          ret |-> [NoRet EXCEPT !.res = "OK", !.level = level]]
              /\ UNCHANGED <<logs, now>>

\* -------------------------------------------------------------- validate
\* mutant: a code is treated as expired on the tick it expires
ValidateOutcome_ExpiryInclusive(tbl, c, t) ==
    IF c \notin DOMAIN tbl THEN "NotFound"
    ELSE IF ~tbl[c].is_valid THEN "Disabled"
    ELSE IF tbl[c].expires_at <= ReferenceTime(tbl, t) THEN "Expired"
    ELSE IF tbl[c].uses_remaining <= 0 THEN "Depleted"
    ELSE "OK"

\* mutant: the uses are looked at before the expiry
ValidateOutcome_DepletedFirst(tbl, c, t) ==
    IF c \notin DOMAIN tbl THEN "NotFound"
    ELSE IF ~tbl[c].is_valid THEN "Disabled"
    ELSE IF tbl[c].uses_remaining <= 0 THEN "Depleted"
    ELSE IF tbl[c].expires_at < ReferenceTime(tbl, t) THEN "Expired"
    ELSE "OK"

ValidateOutcome(tbl, c, t) ==
    IF c \notin DOMAIN tbl THEN "NotFound"
    ELSE IF ~tbl[c].is_valid THEN "Disabled"
    ELSE IF tbl[c].expires_at < ReferenceTime(tbl, t) THEN "Expired"
    ELSE IF tbl[c].uses_remaining <= 0 THEN "Depleted"
    ELSE "OK"

\* mutant: the expiry path also takes a use
AutoDisable_TakesUse(tbl, c) ==
    [tbl EXCEPT ![c].is_valid = FALSE, ![c].uses_remaining = @ - 1]

\* mutant: the expiry path also stamps last_used
AutoDisable_Stamps(tbl, c) ==
    [tbl EXCEPT ![c].is_valid = FALSE, ![c].last_used = tbl[c].expires_at]

\* mutant: the expiry path forgets to clear is_valid
AutoDisable_Noop(tbl, c) == tbl

AutoDisable(tbl, c) == [tbl EXCEPT ![c].is_valid = FALSE]

\* mutant: a successful validation does not use up a use
Consume_NoDecrement(tbl, c, t) ==
    [tbl EXCEPT ![c].last_used = ReferenceTime(tbl, t)]

Consume(tbl, c, t) ==
    [tbl EXCEPT ![c].last_used = ReferenceTime(tbl, t),
                ![c].uses_remaining = @ - 1]

\* mutant: the log entry is built but never added
LogAccess_Dropped(lg, tbl, c, user, action, t) == lg

\* mutant: the entry is added twice
LogAccess_Twice(lg, tbl, c, user, action, t) ==
    lg \o << [access_code |-> c, user |-> user, action |-> action,
              timestamp |-> ReferenceTime(tbl, t)],
             [access_code |-> c, user |-> user, action |-> action,
              timestamp |-> ReferenceTime(tbl, t)] >>

\* mutant: the entry is written over an empty log
LogAccess_Alone(lg, tbl, c, user, action, t) ==
    <<[access_code |-> c, user |-> user, action |-> action,
       timestamp |-> ReferenceTime(tbl, t)]>>

LogAccess(lg, tbl, c, user, action, t) ==
    Append(lg, [access_code |-> c, user |-> user, action |-> action,
                timestamp |-> ReferenceTime(tbl, t)])

Validate(raw) ==
    LET c == Normalize(raw)
        out == ValidateOutcome(codes, c, now)
    IN
    /\ nops < MaxOps
    /\ nops' = nops + 1
    /\ UNCHANGED <<proc, web>>
    /\ CASE out = "Expired" ->
              /\ codes' = AutoDisable(codes, c)
              /\ hist' = Touch(c)
              /\ last' = [op |-> "validate", arg |-> raw,
                          ret |-> [NoRet EXCEPT !.res = out]]
              /\ UNCHANGED <<logs, now>>
         [] out = "OK" ->
              \E t2 \in {now, now + 1} :
                /\ codes' = Consume(codes, c, now)
                /\ logs' = LogAccess(logs, codes', c, codes'[c].assigned_to, "login", t2)
                /\ now' = t2
                /\ hist' = [hist EXCEPT ![c].succ = @ + 1]
                /\ last' = [op |-> "validate", arg |-> raw,
                            ret |-> [NoRet EXCEPT !.res = out,
                                       !.uses = codes'[c].uses_remaining,
                                       !.level = codes'[c].access_level,
                                       !.perms = PermissionsFor(codes'[c].access_level)]]
         [] OTHER ->
              /\ last' = [op |-> "validate", arg |-> raw,
                          ret |-> [NoRet EXCEPT !.res = out]]
              /\ UNCHANGED <<codes, logs, now, hist>>

\* ------------------------------------------------------------------ list
IsExpired(rec, ref) == rec.expires_at < ref

\* mutant: list tests expiry before is_valid
ListStatus_ExpiredFirst(rec, ref) ==
    IF IsExpired(rec, ref) THEN "expired"
    ELSE IF ~rec.is_valid THEN "disabled"
    ELSE IF rec.uses_remaining <= 0 THEN "depleted"
    ELSE "active"

ListStatus(rec, ref) ==
    IF ~rec.is_valid THEN "disabled"
    ELSE IF IsExpired(rec, ref) THEN "expired"
    ELSE IF rec.uses_remaining <= 0 THEN "depleted"
    ELSE "active"

ListCodes(tbl, t) ==
    [c \in DOMAIN tbl |-> ListStatus(tbl[c], ReferenceTime(tbl, t))]

List ==
    /\ nops < MaxOps
    /\ nops' = nops + 1
    /\ UNCHANGED <<proc, web>>
    /\ last' = [op |-> "list", arg |-> <<>>,
                ret |-> [NoRet EXCEPT !.res = "OK", !.status = ListCodes(codes, now)]]
    /\ UNCHANGED <<codes, logs, now, hist>>

\* --------------------------------------------------------------- disable
\* mutant: disable flips is_valid
DisableTable_Toggle(tbl, c) == [tbl EXCEPT ![c].is_valid = ~@]

DisableTable(tbl, c) == [tbl EXCEPT ![c].is_valid = FALSE]

Disable(raw) ==
    LET c == Normalize(raw) IN
    /\ nops < MaxOps
    /\ nops' = nops + 1
    /\ UNCHANGED <<proc, web>>
    /\ IF c \notin DOMAIN codes
       THEN /\ last' = [op |-> "disable", arg |-> raw,
                        ret |-> [NoRet EXCEPT !.res = "False"]]
            /\ UNCHANGED <<codes, logs, now, hist>>
       ELSE /\ codes' = DisableTable(codes, c)
            /\ hist' = [hist EXCEPT ![c].clean = FALSE, ![c].dis = TRUE,
                                    ![c].redis = @ \/ (hist[c].dis /\ ~codes[c].is_valid)]
            /\ last' = [op |-> "disable", arg |-> raw,
                        ret |-> [NoRet EXCEPT !.res = "True"]]
            /\ UNCHANGED <<logs, now>>

\* ---------------------------------------------------------------- update
\* mutant: the allow-list also lets the bookkeeping fields through
AllowedFields_Wide ==
    {"assigned_to", "email", "expires_at", "is_valid", "uses_remaining",
     "notes", "access_level", "created_at", "last_used"}

AllowedFields ==
    {"assigned_to", "email", "expires_at", "is_valid", "uses_remaining",
     "notes", "access_level"}

ApplyUpdates(rec, upd) ==
    [f \in DOMAIN rec |->
        IF f \in DOMAIN upd /\ f \in AllowedFields THEN upd[f] ELSE rec[f]]

Update(raw, upd) ==
    LET c == Normalize(raw) IN
    /\ nops < MaxOps
    /\ nops' = nops + 1
    /\ UNCHANGED <<proc, web>>
    /\ IF c \notin DOMAIN codes
       THEN /\ last' = [op |-> "update", arg |-> raw,
                        ret |-> [NoRet EXCEPT !.res = "False"]]
            /\ UNCHANGED <<codes, logs, now, hist>>
       ELSE /\ codes' = [codes EXCEPT ![c] = ApplyUpdates(@, upd)]
            /\ hist' = Touch(c)
            /\ last' = [op |-> "update", arg |-> raw,
                        ret |-> [NoRet EXCEPT !.res = "True"]]
            /\ UNCHANGED <<logs, now>>

\* ----------------------------------------------------------------- stats
\* mutant: stats tests expiry before is_valid
StatsBucket_ExpiredFirst(rec, ref) ==
    IF rec.expires_at < ref THEN "expired"
    ELSE IF ~rec.is_valid THEN "disabled"
    ELSE IF rec.uses_remaining <= 0 THEN "depleted"
    ELSE "active"

\* the bucket get_usage_stats puts one record in
StatsBucket(rec, ref) ==
    IF ~rec.is_valid THEN "disabled"
    ELSE IF rec.expires_at < ref THEN "expired"
    ELSE IF rec.uses_remaining <= 0 THEN "depleted"
    ELSE "active"

CountBucket(tbl, t, b) ==
    Cardinality({c \in DOMAIN tbl : StatsBucket(tbl[c], ReferenceTime(tbl, t)) = b})

\* a day is shorter than a tick: later than a day ago is not before ref
IsRecent(ts, ref) == ts >= ref

UsageStats(tbl, lg, t) ==
    [total_codes |-> Cardinality(DOMAIN tbl),
     active_codes |-> CountBucket(tbl, t, "active"),
     expired_codes |-> CountBucket(tbl, t, "expired"),
     disabled_codes |-> CountBucket(tbl, t, "disabled"),
     depleted_codes |-> CountBucket(tbl, t, "depleted"),
     unique_users |-> Cardinality({lg[i].user : i \in 1..Len(lg)}),
     total_logins |-> Cardinality({i \in 1..Len(lg) : lg[i].action = "login"}),
     recent_logins |->
        Cardinality({i \in 1..Len(lg) :
            lg[i].action = "login" /\ IsRecent(lg[i].timestamp, ReferenceTime(tbl, t))})]

Stats ==
    /\ nops < MaxOps
    /\ nops' = nops + 1
    /\ UNCHANGED <<proc, web>>
    /\ last' = [op |-> "stats", arg |-> <<>>,
                ret |-> [NoRet EXCEPT !.res = "OK", !.counts = UsageStats(codes, logs, now)]]
    /\ UNCHANGED <<codes, logs, now, hist>>

\* ------------------------------------------------------------------ logs
\* The filter maps callers send to logs; the empty map is "no filter".
FilterChoices ==
    << EmptyTable,
       [access_code |-> <<"A", "7">>],
       [user |-> "ann", action |-> "login"],
       [user |-> "bob"],
       [email |-> "e"] >>

\* log_entry = data.copy(); log_entry["id"] = log_id
FormatLog(lg, i) ==
    [id |-> i, access_code |-> lg[i].access_code, user |-> lg[i].user,
     action |-> lg[i].action, timestamp |-> lg[i].timestamp]

\* an entry is dropped when a filtered key is in it with another value
MatchesFilters(entry, filters) ==
    \A k \in DOMAIN filters : ~(k \in DOMAIN entry /\ entry[k] # filters[k])

\* the place of e in a newest-first list: after every entry at least as new
RECURSIVE InsertNewestFirst(_, _)
InsertNewestFirst(s, e) ==
    IF s = <<>> THEN <<e>>
    ELSE IF Head(s).timestamp >= e.timestamp
         THEN <<Head(s)>> \o InsertNewestFirst(Tail(s), e)
         ELSE <<e>> \o s

\* mutant: the entries are returned in the order of the file
SortNewestFirst_Unsorted(s) == s

\* sorted(..., key = parsed timestamp, reverse = True), a stable sort
RECURSIVE SortNewestFirst(_)
SortNewestFirst(s) ==
    IF s = <<>> THEN <<>>
    ELSE InsertNewestFirst(SortNewestFirst(SubSeq(s, 1, Len(s) - 1)), s[Len(s)])

RECURSIVE FormattedLogs(_, _, _)
FormattedLogs(lg, filters, i) ==
    IF i > Len(lg) THEN <<>>
    ELSE (IF MatchesFilters(FormatLog(lg, i), filters)
          THEN <<FormatLog(lg, i)>> ELSE <<>>)
         \o FormattedLogs(lg, filters, i + 1)

GetAccessLogs(lg, filters) == SortNewestFirst(FormattedLogs(lg, filters, 1))

Logs(filters) ==
    /\ nops < MaxOps
    /\ nops' = nops + 1
    /\ UNCHANGED <<proc, web>>
    /\ last' = [op |-> "logs", arg |-> filters,
                ret |-> [NoRet EXCEPT !.res = "OK",
                                      !.entries = GetAccessLogs(logs, filters)]]
    /\ UNCHANGED <<codes, logs, now, hist>>

\* ------------------------------------------- validate, one table access a step
AllIdle == \A p \in Procs : proc[p].pc = "idle"

\* _load_access_codes at the head of validate_access_code
VLoad(p, raw) ==
    /\ proc[p].pc = "idle"
    /\ UNCHANGED web
    /\ nops < MaxOps
    /\ nops' = nops + 1
    /\ proc' = [proc EXCEPT ![p] = [Idle EXCEPT !.pc = "loaded", !.raw = raw,
                                      !.code = Normalize(raw), !.tbl = codes]]
    /\ UNCHANGED <<codes, logs, now, last, hist>>

\* the checks on the loaded table, and the _save_access_codes that follows
VSave(p) ==
    LET c == proc[p].code
        tbl == proc[p].tbl
        out == ValidateOutcome(tbl, c, now)
    IN
    /\ proc[p].pc = "loaded"
    /\ UNCHANGED web
    /\ CASE out = "Expired" ->
              /\ codes' = AutoDisable(tbl, c)
              /\ hist' = Touch(c)
              /\ proc' = [proc EXCEPT ![p] = Idle]
              /\ last' = [op |-> "validate", arg |-> proc[p].raw,
                          ret |-> [NoRet EXCEPT !.res = out]]
              /\ UNCHANGED <<logs, now, nops>>
         [] out = "OK" ->
              /\ codes' = Consume(tbl, c, now)
              /\ proc' = [proc EXCEPT ![p].pc = "saved", ![p].tbl = codes']
              /\ UNCHANGED <<logs, now, nops, last, hist>>
         [] OTHER ->
              /\ proc' = [proc EXCEPT ![p] = Idle]
              /\ last' = [op |-> "validate", arg |-> proc[p].raw,
                          ret |-> [NoRet EXCEPT !.res = out]]
              /\ UNCHANGED <<codes, logs, now, nops, hist>>

\* _log_access: _load_access_logs, the clock, _load_access_codes
VLogLoad(p) ==
    /\ proc[p].pc = "saved"
    /\ UNCHANGED web
    /\ proc' = [proc EXCEPT ![p].pc = "logging", ![p].lg = logs,
                            ![p].ts = ReferenceTime(codes, now)]
    /\ UNCHANGED <<codes, logs, now, nops, last, hist>>

\* _log_access: _save_access_logs, and validate returns valid
VLogSave(p) ==
    LET c == proc[p].code
        rec == proc[p].tbl[c]
    IN
    /\ proc[p].pc = "logging"
    /\ UNCHANGED web
    /\ logs' = Append(proc[p].lg, [access_code |-> c, user |-> rec.assigned_to,
                                   action |-> "login", timestamp |-> proc[p].ts])
    /\ hist' = [hist EXCEPT ![c].succ = @ + 1]
    /\ last' = [op |-> "validate", arg |-> proc[p].raw,
                ret |-> [NoRet EXCEPT !.res = "OK", !.uses = rec.uses_remaining,
                                      !.level = rec.access_level,
                                      !.perms = PermissionsFor(rec.access_level)]]
    /\ proc' = [proc EXCEPT ![p] = Idle]
    /\ UNCHANGED <<codes, now, nops>>

Next ==
    \/ Tick
    \/ \E u \in Users, d \in ExpiryChoices, n \in UsesChoices, l \in LevelChoices :
         Create(u, d, n, l)
    \/ \E raw \in RawCodes : Validate(raw)
    \/ List
    \/ \E raw \in RawCodes : Disable(raw)
    \/ \E raw \in RawCodes, i \in 1..Len(UpdateChoices) : Update(raw, UpdateChoices[i])
    \/ Stats

Spec == Init /\ [][Next]_vars

\* requests served by concurrent threads: validate interleaves at its table
\* accesses with the other thread's
NextConc ==
    \/ Tick
    \/ \E u \in Users, d \in ExpiryChoices, n \in UsesChoices, l \in LevelChoices :
         Create(u, d, n, l)
    \/ \E p \in Procs, raw \in RawCodes : VLoad(p, raw)
    \/ \E p \in Procs : VSave(p)
    \/ \E p \in Procs : VLogLoad(p)
    \/ \E p \in Procs : VLogSave(p)

SpecConc == Init /\ [][NextConc]_vars

\* the calls one at a time, without update
NextLedger ==
    \/ Tick
    \/ \E u \in Users, d \in ExpiryChoices, n \in UsesChoices, l \in LevelChoices :
         Create(u, d, n, l)
    \/ \E raw \in RawCodes : Validate(raw)
    \/ List
    \/ \E raw \in RawCodes : Disable(raw)
    \/ Stats
    \/ \E i \in 1..Len(FilterChoices) : Logs(FilterChoices[i])

SpecLedger == Init /\ [][NextLedger]_vars

\* --------------------------------- create and disable, one table access a step
\* _generate_access_code and _load_access_codes of create_access_code, and the
\* new record put into the loaded table
CLoad(p, user, days, uses, level) ==
    /\ proc[p].pc = "idle"
    /\ UNCHANGED web
    /\ nops < MaxOps
    /\ nops' = nops + 1
    /\ IF ~LevelAccepted(level)
       THEN /\ last' = [op |-> "create", arg |-> <<>>,
                        ret |-> [NoRet EXCEPT !.res = "None", !.level = level]]
            /\ UNCHANGED <<codes, logs, now, hist, proc>>
       ELSE \E c \in FreshCodes(codes) :
              /\ proc' = [proc EXCEPT ![p] =
                    [Idle EXCEPT !.pc = "cloaded", !.code = c,
                         !.tbl = Put(codes, c,
                                     NewCodeData(codes, now, user, days, uses, level))]]
              /\ UNCHANGED <<codes, logs, now, last, hist>>

\* _save_access_codes of create_access_code, and create returns the code
CSave(p) ==
    LET c == proc[p].code
        rec == proc[p].tbl[c]
    IN
    /\ proc[p].pc = "cloaded"
    /\ UNCHANGED web
    /\ codes' = proc[p].tbl
    /\ hist' = Put(hist, c,
          [NewHist(rec.uses_remaining) EXCEPT
              !.made = IF c \in DOMAIN hist THEN hist[c].made + 1 ELSE 1])
    /\ last' = [op |-> "create", arg |-> c,
                ret |-> [NoRet EXCEPT !.res = "OK", !.level = rec.access_level]]
    /\ proc' = [proc EXCEPT ![p] = Idle]
    /\ UNCHANGED <<logs, now, nops>>

\* _load_access_codes of disable_access_code, and is_valid cleared in the
\* loaded table
DLoad(p, raw) ==
    LET c == Normalize(raw) IN
    /\ proc[p].pc = "idle"
    /\ UNCHANGED web
    /\ nops < MaxOps
    /\ nops' = nops + 1
    /\ IF c \notin DOMAIN codes
       THEN /\ last' = [op |-> "disable", arg |-> raw,
                        ret |-> [NoRet EXCEPT !.res = "False"]]
            /\ UNCHANGED <<codes, logs, now, hist, proc>>
       ELSE /\ proc' = [proc EXCEPT ![p] =
                  [Idle EXCEPT !.pc = "dloaded", !.raw = raw, !.code = c,
                               !.tbl = DisableTable(codes, c)]]
            /\ UNCHANGED <<codes, logs, now, last, hist>>

\* _save_access_codes of disable_access_code, and disable returns True
DSave(p) ==
    LET c == proc[p].code IN
    /\ proc[p].pc = "dloaded"
    /\ UNCHANGED web
    /\ codes' = proc[p].tbl
    /\ hist' = [hist EXCEPT ![c].clean = FALSE, ![c].dis = TRUE,
                            ![c].redis = @ \/ (hist[c].dis /\ ~codes[c].is_valid)]
    /\ last' = [op |-> "disable", arg |-> proc[p].raw,
                ret |-> [NoRet EXCEPT !.res = "True"]]
    /\ proc' = [proc EXCEPT ![p] = Idle]
    /\ UNCHANGED <<logs, now, nops>>

\* a create served while no other request is in progress
CreateAlone(user, days, uses, level) ==
    /\ AllIdle
    /\ Create(user, days, uses, level)

\* creates on concurrent threads, among whole disable calls
NextCreateRace ==
    \/ Tick
    \/ \E p \in Procs, u \in Users, d \in ExpiryChoices, n \in UsesChoices,
          l \in LevelChoices : CLoad(p, u, d, n, l)
    \/ \E p \in Procs : CSave(p)
    \/ \E raw \in RawCodes : Disable(raw)

SpecCreateRace == Init /\ [][NextCreateRace]_vars

\* validate and disable on concurrent threads; the codes are created while
\* no request is in progress
NextDisableRace ==
    \/ Tick
    \/ \E u \in Users, d \in ExpiryChoices, n \in UsesChoices, l \in LevelChoices :
         CreateAlone(u, d, n, l)
    \/ \E p \in Procs, raw \in RawCodes : VLoad(p, raw)
    \/ \E p \in Procs : VSave(p)
    \/ \E p \in Procs : VLogLoad(p)
    \/ \E p \in Procs : VLogSave(p)
    \/ \E p \in Procs, raw \in RawCodes : DLoad(p, raw)
    \/ \E p \in Procs : DSave(p)

SpecDisableRace == Init /\ [][NextDisableRace]_vars

\* ------------------------------------------------------- storage failures
\* A call may meet a storage failure: "read" (the code file cannot be read,
\* _load_access_codes returns {}), "save" (_save_access_codes returns False),
\* "logread" (_load_access_logs returns {}), "logsave" (_save_access_logs
\* returns False).  A file that cannot be read can still be written.
TableFaults == {"none", "read", "save"}

\* the field maps sent to update while storage may fail
FaultUpdateChoices == <<[is_valid |-> TRUE], [uses_remaining |-> 2]>>

LogFaults == {"logread", "logsave"}

\* what _load_access_codes hands to its caller
LoadCodes(f) == IF f = "read" THEN EmptyTable ELSE codes

\* what _load_access_logs hands to _log_access
LoadLogs(f) == IF f = "logread" THEN <<>> ELSE logs

CreateF(user, days, uses, level, f) ==
    LET tbl == LoadCodes(f) IN
    /\ nops < MaxOps
    /\ nops' = nops + 1
    /\ UNCHANGED <<proc, web>>
    /\ IF ~LevelAccepted(level)
       THEN /\ f = "none"
            /\ last' = [op |-> "create", arg |-> <<>>,
                        ret |-> [NoRet EXCEPT !.res = "None", !.level = level]]
            /\ UNCHANGED <<codes, logs, now, hist>>
       ELSE \E c \in FreshCodes(tbl) :
              IF f = "save"
              THEN /\ last' = [op |-> "create", arg |-> <<>>,
                               ret |-> [NoRet EXCEPT !.res = "None", !.level = level,
                                                     !.fault = f]]
                   /\ UNCHANGED <<codes, logs, now, hist>>
              ELSE /\ codes' = Put(tbl, c, NewCodeData(tbl, now, user, days, uses, level))
                   /\ hist' = Put(hist, c,
                         [NewHist(uses) EXCEPT
                             !.made = IF c \in DOMAIN hist THEN hist[c].made + 1 ELSE 1])
                   /\ last' = [op |-> "create", arg |-> c,
                               ret |-> [NoRet EXCEPT !.res = "OK", !.level = level,
                                                     !.fault = f]]
                   /\ UNCHANGED <<logs, now>>

ValidateF(raw, f) ==
    LET c == Normalize(raw)
        tbl == LoadCodes(f)
        out == ValidateOutcome(tbl, c, now)
    IN
    /\ nops < MaxOps
    /\ nops' = nops + 1
    /\ UNCHANGED <<proc, web>>
    /\ f = "save" => out \in {"OK", "Expired"}
    /\ f \in LogFaults => out = "OK"
    /\ CASE out = "Expired" ->
              /\ codes' = IF f = "save" THEN codes ELSE AutoDisable(tbl, c)
              /\ hist' = Touch(c)
              /\ last' = [op |-> "validate", arg |-> raw,
                          ret |-> [NoRet EXCEPT !.res = out, !.fault = f]]
              /\ UNCHANGED <<logs, now>>
         [] out = "OK" ->
              \E t2 \in {now, now + 1} :
                LET mem == Consume(tbl, c, now) IN
                /\ codes' = IF f = "save" THEN codes ELSE mem
                /\ logs' = IF f = "logsave" THEN logs
                           ELSE LogAccess(LoadLogs(f), codes', c, mem[c].assigned_to,
                                          "login", t2)
                /\ now' = t2
                /\ hist' = [hist EXCEPT ![c].succ = @ + 1]
                /\ last' = [op |-> "validate", arg |-> raw,
                            ret |-> [NoRet EXCEPT !.res = out,
                                       !.uses = mem[c].uses_remaining,
                                       !.level = mem[c].access_level,
                                       !.perms = PermissionsFor(mem[c].access_level),
                                       !.fault = f]]
         [] OTHER ->
              /\ last' = [op |-> "validate", arg |-> raw,
                          ret |-> [NoRet EXCEPT !.res = out, !.fault = f]]
              /\ UNCHANGED <<codes, logs, now, hist>>

DisableF(raw, f) ==
    LET c == Normalize(raw)
        tbl == LoadCodes(f)
    IN
    /\ nops < MaxOps
    /\ nops' = nops + 1
    /\ UNCHANGED <<proc, web>>
    /\ f = "save" => c \in DOMAIN tbl
    /\ IF c \notin DOMAIN tbl \/ f = "save"
       THEN /\ last' = [op |-> "disable", arg |-> raw,
                        ret |-> [NoRet EXCEPT !.res = "False", !.fault = f]]
            /\ UNCHANGED <<codes, logs, now, hist>>
       ELSE /\ codes' = DisableTable(tbl, c)
            /\ hist' = [hist EXCEPT ![c].clean = FALSE, ![c].dis = TRUE,
                                    ![c].redis = @ \/ (hist[c].dis /\ ~codes[c].is_valid)]
            /\ last' = [op |-> "disable", arg |-> raw,
                        ret |-> [NoRet EXCEPT !.res = "True"]]
            /\ UNCHANGED <<logs, now>>

UpdateF(raw, upd, f) ==
    LET c == Normalize(raw)
        tbl == LoadCodes(f)
    IN
    /\ nops < MaxOps
    /\ nops' = nops + 1
    /\ UNCHANGED <<proc, web>>
    /\ f = "save" => c \in DOMAIN tbl
    /\ IF c \notin DOMAIN tbl \/ f = "save"
       THEN /\ last' = [op |-> "update", arg |-> raw,
                        ret |-> [NoRet EXCEPT !.res = "False", !.fault = f]]
            /\ UNCHANGED <<codes, logs, now, hist>>
       ELSE /\ codes' = [tbl EXCEPT ![c] = ApplyUpdates(@, upd)]
            /\ hist' = Touch(c)
            /\ last' = [op |-> "update", arg |-> raw,
                        ret |-> [NoRet EXCEPT !.res = "True"]]
            /\ UNCHANGED <<logs, now>>

NextFault ==
    \/ Tick
    \/ \E u \in Users, d \in ExpiryChoices, n \in UsesChoices, l \in LevelChoices,
          f \in TableFaults : CreateF(u, d, n, l, f)
    \/ \E raw \in RawCodes, f \in TableFaults \cup LogFaults : ValidateF(raw, f)
    \/ \E raw \in RawCodes, f \in TableFaults : DisableF(raw, f)
    \/ \E raw \in RawCodes, i \in 1..Len(FaultUpdateChoices), f \in TableFaults :
         UpdateF(raw, FaultUpdateChoices[i], f)

SpecFault == Init /\ [][NextFault]_vars

\* ------------------------------------------------------------ rate limit
RATE_LIMIT ==
    ("default" :> [requests |-> 100, window |-> 60])
    @@ ("/analyze-image" :> [requests |-> 20, window |-> 60])
    @@ ("/generate-report" :> [requests |-> 10, window |-> 60])

Clients == {"10.0.0.1"}

\* request.path of the requests made
Endpoints == {"/generate-report", "/api/access/validate"}

\* seconds the clock moves between two requests
ClockStep == 30

\* limit_key = endpoint if endpoint in RATE_LIMIT else 'default'
LimitConfig(endpoint) ==
    IF endpoint \in DOMAIN RATE_LIMIT THEN RATE_LIMIT[endpoint]
    ELSE RATE_LIMIT["default"]

\* f"{client_ip}:{endpoint}"
RateKey(ip, endpoint) == <<ip, endpoint>>

RecordsOf(recs, key) == IF key \in DOMAIN recs THEN recs[key] ELSE <<>>

RECURSIVE CleanExpired(_, _)
\* [t for t in request_records[key] if t > window_start]
CleanExpired(ts, window_start) ==
    IF ts = <<>> THEN <<>>
    ELSE (IF Head(ts) > window_start THEN <<Head(ts)>> ELSE <<>>)
         \o CleanExpired(Tail(ts), window_start)

\* mutant: the request that reaches the limit is still let through
LimitExceeded_Late(n, requests) == n > requests

LimitExceeded(n, requests) == n >= requests

RECURSIVE SeqMin(_)
SeqMin(ts) ==
    IF Len(ts) = 1 THEN ts[1]
    ELSE LET m == SeqMin(Tail(ts)) IN IF Head(ts) < m THEN Head(ts) ELSE m

\* int(reset_time - current_time), with the clock in whole seconds
RetryAfter(ts, window, t) == (SeqMin(ts) + window) - t

RateLimit(ip, endpoint) ==
    LET cfg == LimitConfig(endpoint)
        key == RateKey(ip, endpoint)
        kept == CleanExpired(RecordsOf(request_records, key), rtime - cfg.window)
    IN
    /\ rlast.n < MaxReq
    /\ IF LimitExceeded(Len(kept), cfg.requests)
       THEN /\ request_records' = Put(request_records, key, kept)
            /\ rlast' = [n |-> rlast.n + 1, key |-> key, status |-> 429,
                         retry_after |-> RetryAfter(kept, cfg.window, rtime)]
            /\ UNCHANGED admitted
       ELSE /\ request_records' = Put(request_records, key, Append(kept, rtime))
            /\ rlast' = [n |-> rlast.n + 1, key |-> key, status |-> 200,
                         retry_after |-> 0]
            /\ admitted' = Put(admitted, key, Append(RecordsOf(admitted, key), rtime))
    /\ UNCHANGED <<rtime, ledger>>

\* time passes between two requests
ClockTick ==
    /\ rlast.n < MaxReq
    /\ rtime' = rtime + ClockStep
    /\ rlast' = [n |-> rlast.n + 1, key |-> <<>>, status |-> 0, retry_after |-> 0]
    /\ UNCHANGED <<request_records, admitted, ledger>>

NextRate ==
    \/ ClockTick
    \/ \E ip \in Clients, e \in Endpoints : RateLimit(ip, e)

SpecRate == Init /\ [][NextRate]_vars

\* ===================================================================== claims
\* a step that is one whole call of the named operation (sequential Spec)
OpStep(name) == nops' = nops + 1 /\ last'.op = name

LastCode == Normalize(last.arg)

RECURSIVE SumSucc(_)
SumSucc(S) ==
    IF S = {} THEN 0
    ELSE LET c == CHOOSE x \in S : TRUE IN hist[c].succ + SumSucc(S \ {c})

\* the successful validations performed so far
NSucc == SumSucc(DOMAIN hist)

\* C1: validate(code) returns valid exactly when the table holds a record for
\* the trimmed, upper-cased code with is_valid true, expires_at at or after
\* the operation's reference time (equality is still usable) and
\* uses_remaining > 0.
Usable(tbl, c, ref) ==
    /\ c \in DOMAIN tbl
    /\ tbl[c].is_valid
    /\ tbl[c].expires_at >= ref
    /\ tbl[c].uses_remaining > 0

C1_ValidIffUsable ==
    [][OpStep("validate") =>
        ((last'.ret.res = "OK") <=>
            Usable(codes, Normalize(last'.arg), ReferenceTime(codes, now)))]_vars

\* a validation succeeded on the very tick the code expires
C1_Witness ==
    /\ last.op = "validate"
    /\ last.ret.res = "OK"
    /\ codes[LastCode].expires_at = codes[LastCode].last_used
    /\ codes[LastCode].last_used = now

\* C2: a code created with uses = n >= 1 and only validated, each time before
\* its expiry, succeeds exactly n times, the i-th success reporting n - i
\* uses remaining, and fails with Depleted from the (n+1)-th validation on.
C2_ExactlyNUses ==
    [][(/\ OpStep("validate")
        /\ Normalize(last'.arg) \in DOMAIN codes
        /\ hist[Normalize(last'.arg)].clean
        /\ hist[Normalize(last'.arg)].uses0 >= 1
        /\ codes[Normalize(last'.arg)].expires_at >= ReferenceTime(codes, now))
       => LET h == hist[Normalize(last'.arg)] IN
          IF h.succ < h.uses0
          THEN last'.ret.res = "OK" /\ last'.ret.uses = h.uses0 - (h.succ + 1)
          ELSE last'.ret.res = "Depleted"]_vars

\* the third validation of an untouched two-use code was refused as depleted
C2_Witness ==
    /\ last.op = "validate"
    /\ last.ret.res = "Depleted"
    /\ hist[LastCode].clean
    /\ hist[LastCode].uses0 = 2
    /\ hist[LastCode].succ = 2

\* C3: once disable(code) has returned success, every later validate of that
\* code fails with Disabled, whatever operations come in between.
C3_DisabledStaysDisabled ==
    [][(/\ OpStep("validate")
        /\ Normalize(last'.arg) \in DOMAIN hist
        /\ hist[Normalize(last'.arg)].dis)
       => last'.ret.res = "Disabled"]_vars

\* C4: is_valid is monotone: a record stored with is_valid false is never
\* stored with is_valid true again.
C4_IsValidMonotone ==
    [][\A c \in DOMAIN codes : ~codes[c].is_valid => ~codes'[c].is_valid]_vars

\* C5: validating a valid code whose expires_at is before the reference time
\* fails with Expired and stores is_valid false, so that a list() that
\* follows reports it disabled and a validate that follows fails Disabled.
C5_ExpiredIsRetired ==
    [][(/\ OpStep("validate")
        /\ Normalize(last'.arg) \in DOMAIN codes
        /\ codes[Normalize(last'.arg)].is_valid
        /\ codes[Normalize(last'.arg)].expires_at < ReferenceTime(codes, now))
       => /\ last'.ret.res = "Expired"
          /\ ~codes'[Normalize(last'.arg)].is_valid
          /\ ListCodes(codes', now')[Normalize(last'.arg)] = "disabled"
          /\ ValidateOutcome(codes', Normalize(last'.arg), now') = "Disabled"]_vars

\* a validation was refused as expired and left the record retired
C5_Witness ==
    /\ last.op = "validate"
    /\ last.ret.res = "Expired"
    /\ ~codes[LastCode].is_valid
    /\ codes[LastCode].expires_at < ReferenceTime(codes, now)

\* C6: create with an access level outside {standard, admin, read_only}
\* returns the failure indicator and leaves both tables as they were.
C6_BadLevelWritesNothing ==
    [][(OpStep("create") /\ last'.ret.level \notin {"standard", "admin", "read_only"})
       => /\ last'.ret.res = "None"
          /\ codes' = codes
          /\ logs' = logs]_vars

\* a create was refused while the table already held a record
C6_Witness ==
    /\ last.op = "create"
    /\ last.ret.res = "None"
    /\ last.ret.level = "guest"
    /\ DOMAIN codes # {}

\* C7: a validate that returns valid appends exactly one log entry (that
\* code, its holder, action login) and a failed validate appends none, so the
\* log has as many entries as there were successful validations.
C7_OneLogPerSuccess ==
    /\ [](Len(logs) = NSucc)
    /\ [][OpStep("validate") =>
            IF last'.ret.res = "OK"
            THEN /\ Len(logs') = Len(logs) + 1
                 /\ SubSeq(logs', 1, Len(logs)) = logs
                 /\ logs'[Len(logs')].access_code = Normalize(last'.arg)
                 /\ logs'[Len(logs')].user = codes[Normalize(last'.arg)].assigned_to
                 /\ logs'[Len(logs')].action = "login"
            ELSE logs' = logs]_vars

\* a second successful validation stood in the log beside the first
C7_Witness ==
    /\ last.op = "validate"
    /\ last.ret.res = "OK"
    /\ Len(logs) = 2
    /\ NSucc = 2

\* C8: concurrent validations lose no update: once all have returned, each
\* code's uses_remaining has dropped by the number of validations of it that
\* returned valid, so a code never yields more successes than its uses.
C8_NoLostUpdate ==
    AllIdle =>
        \A c \in DOMAIN codes :
            /\ hist[c].uses0 - codes[c].uses_remaining = hist[c].succ
            /\ hist[c].succ <= hist[c].uses0

\* C9: list() gives every stored record exactly one status: disabled when
\* is_valid is false, else expired when expires_at is before the reference
\* time, else depleted when uses_remaining <= 0, else active.
C9_ListStatusPriority ==
    last.op = "list" =>
        /\ DOMAIN last.ret.status = DOMAIN codes
        /\ \A c \in DOMAIN codes :
             LET r == codes[c]
                 ref == ReferenceTime(codes, now)
                 st == last.ret.status[c]
             IN /\ st \in {"disabled", "expired", "depleted", "active"}
                /\ ~r.is_valid => st = "disabled"
                /\ (r.is_valid /\ r.expires_at < ref) => st = "expired"
                /\ (r.is_valid /\ r.expires_at >= ref /\ r.uses_remaining <= 0)
                      => st = "depleted"
                /\ (r.is_valid /\ r.expires_at >= ref /\ r.uses_remaining > 0)
                      => st = "active"

\* list() reported as disabled a record that is also past its expiry
C9_Witness ==
    /\ last.op = "list"
    /\ \E c \in DOMAIN codes :
         /\ last.ret.status[c] = "disabled"
         /\ codes[c].expires_at < ReferenceTime(codes, now)

\* C10: on one table state and reference time, each of stats()'s four status
\* counters is the number of list() entries with that status, and the four
\* add up to total_codes, the number of stored records.
ListCount(st) ==
    Cardinality({c \in DOMAIN codes : ListCodes(codes, now)[c] = st})

C10_StatsMatchList ==
    last.op = "stats" =>
        LET k == last.ret.counts IN
        /\ k.active_codes = ListCount("active")
        /\ k.expired_codes = ListCount("expired")
        /\ k.disabled_codes = ListCount("disabled")
        /\ k.depleted_codes = ListCount("depleted")
        /\ k.total_codes = Cardinality(DOMAIN codes)
        /\ k.active_codes + k.expired_codes + k.disabled_codes + k.depleted_codes
             = k.total_codes

\* stats() counted as disabled a record that is also past its expiry
C10_Witness ==
    /\ last.op = "stats"
    /\ last.ret.counts.total_codes = 1
    /\ last.ret.counts.disabled_codes = 1
    /\ \E c \in DOMAIN codes :
         ~codes[c].is_valid /\ codes[c].expires_at < ReferenceTime(codes, now)

RECURSIVE SumMade(_)
SumMade(S) ==
    IF S = {} THEN 0
    ELSE LET c == CHOOSE x \in S : TRUE IN hist[c].made + SumMade(S \ {c})

\* the creates that returned a code so far
NMade == SumMade(DOMAIN hist)

\* C11: from an empty table, N successful creates and then list() give N
\* entries: create never returns a code that is already a key of the table
\* and never overwrites a stored record.
C11_CreatesAreDistinct ==
    /\ [](last.op = "list" => Cardinality(DOMAIN last.ret.status) = NMade)
    /\ [][(OpStep("create") /\ last'.ret.res = "OK")
            => /\ last'.arg \notin DOMAIN codes
               /\ DOMAIN codes' = DOMAIN codes \cup {last'.arg}
               /\ \A k \in DOMAIN codes : codes'[k] = codes[k]]_vars

\* list() returned the two codes of two successful creates
C11_Witness ==
    /\ last.op = "list"
    /\ NMade = 2
    /\ Cardinality(DOMAIN last.ret.status) = 2

C14_UsesChangeOnlyByValidateOrUpdate ==
    [][/\ \A c \in DOMAIN codes :
            (c \in DOMAIN codes' /\ codes'[c].uses_remaining # codes[c].uses_remaining)
            => \/ /\ OpStep("validate")
                  /\ last'.ret.res = "OK"
                  /\ Normalize(last'.arg) = c
                  /\ codes'[c].uses_remaining = codes[c].uses_remaining - 1
               \/ /\ OpStep("update")
                  /\ last'.ret.res = "True"
                  /\ Normalize(last'.arg) = c
       /\ (OpStep("validate") /\ last'.ret.res = "OK")
            => codes'[Normalize(last'.arg)].uses_remaining
                 = codes[Normalize(last'.arg)].uses_remaining - 1]_vars

\* a validation was refused as expired on a record that still had uses
C14_Witness ==
    /\ last.op = "validate"
    /\ last.ret.res = "Expired"
    /\ codes[LastCode].uses_remaining = hist[LastCode].uses0 - 1
    /\ hist[LastCode].succ = 1

\* C15: in every reachable state every stored record's access_level is one
\* of standard, admin, read_only.
C15_StoredLevelsAreKnown ==
    \A c \in DOMAIN codes : codes[c].access_level \in {"standard", "admin", "read_only"}

\* C16: whenever validate returns valid, the permissions it returns are the
\* ACCESS_LEVELS entry of the access_level it returns, never those of
\* another level.
C16_PermissionsMatchLevel ==
    (last.op = "validate" /\ last.ret.res = "OK")
        => /\ last.ret.level \in DOMAIN PERMISSIONS
           /\ last.ret.perms = PERMISSIONS[last.ret.level]

\* C17: whether validate finds a code expired depends only on that code's
\* record and the current clock: it fails with Expired exactly when the
\* record's expires_at is before the current time, whatever the other
\* records hold.
C17_ExpiryByOwnRecordAndClock ==
    [][(/\ OpStep("validate")
        /\ Normalize(last'.arg) \in DOMAIN codes
        /\ codes[Normalize(last'.arg)].is_valid)
       => ((last'.ret.res = "Expired")
             <=> (codes[Normalize(last'.arg)].expires_at < now))]_vars

\* C18: a successful validate uses one reference time throughout: the
\* last_used it stores equals the timestamp of the log entry it appends.
C18_OneReferenceTime ==
    [][(OpStep("validate") /\ last'.ret.res = "OK")
       => codes'[Normalize(last'.arg)].last_used = logs'[Len(logs')].timestamp]_vars

\* results that report success to the caller
SuccessResults == {"OK", "True"}

\* C19: a ledger operation (create, validate, disable, update) in which the
\* read of the code table or of the log table fails reports failure and leaves
\* the persisted code table and log table exactly as they were.
C19_FailedReadChangesNothing ==
    [][(/\ nops' = nops + 1
        /\ last'.op \in {"create", "validate", "disable", "update"}
        /\ last'.ret.fault \in {"read", "logread"})
       => /\ last'.ret.res \notin SuccessResults
          /\ codes' = codes
          /\ logs' = logs]_vars

\* C20: validate has no partial success: whenever it returns valid, the
\* decremented uses_remaining and the new last_used are in the stored code
\* table and the log entry is in the stored log table.
C20_ValidMeansBothWritten ==
    [][(OpStep("validate") /\ last'.ret.res = "OK")
       => /\ Normalize(last'.arg) \in DOMAIN codes
          /\ codes' = Consume(codes, Normalize(last'.arg), now)
          /\ Len(logs') = Len(logs) + 1
          /\ logs'[Len(logs')].access_code = Normalize(last'.arg)]_vars

\* C21: logs() with no filter returns every entry of the log table exactly
\* once, newest first: of two consecutive entries the earlier one's timestamp
\* is not before the later one's.
C21_LogsNewestFirst ==
    (last.op = "logs" /\ DOMAIN last.arg = {})
        => LET out == last.ret.entries IN
           /\ Len(out) = Len(logs)
           /\ \A i \in 1..Len(logs) :
                Cardinality({j \in 1..Len(out) : out[j].id = i}) = 1
           /\ \A j \in 1..Len(out) :
                /\ out[j].id \in 1..Len(logs)
                /\ \A k \in DOMAIN logs[out[j].id] : out[j][k] = logs[out[j].id][k]
           /\ \A j \in 1..(Len(out) - 1) : out[j].timestamp >= out[j + 1].timestamp

\* an unfiltered logs() over a log whose file order is oldest first
C21_Witness ==
    /\ last.op = "logs"
    /\ DOMAIN last.arg = {}
    /\ Len(logs) >= 2
    /\ logs[1].timestamp < logs[2].timestamp
    /\ Len(last.ret.entries) = Len(logs)

C23_DisableIdempotent ==
    [][OpStep("disable")
       => LET c == Normalize(last'.arg) IN
          IF c \in DOMAIN codes
          THEN /\ last'.ret.res = "True"
               /\ DOMAIN codes' = DOMAIN codes
               /\ ~codes'[c].is_valid
               /\ ~codes[c].is_valid => codes' = codes
          ELSE /\ last'.ret.res = "False"
               /\ codes' = codes]_vars

\* a second successful disable of a code the first one had disabled
C23_Witness ==
    /\ last.op = "disable"
    /\ last.ret.res = "True"
    /\ LastCode \in DOMAIN hist
    /\ hist[LastCode].redis
    /\ ~codes[LastCode].is_valid

\* C24: update of a known code changes only the fields of that record that
\* are both in the map sent and among assigned_to, email, expires_at,
\* is_valid, uses_remaining, notes, access_level; created_at, last_used, keys
\* outside that list and every other record stay as they were; update of an
\* unknown code returns failure and changes nothing.
C24_UpdateFrame ==
    [][OpStep("update")
       => \A c \in {Normalize(last'.arg)} :
          IF c \in DOMAIN codes
          THEN /\ \A old \in {codes[c]}, new \in {codes'[c]} :
                    /\ codes' = [codes EXCEPT ![c] = new]
                    /\ DOMAIN new = DOMAIN old
                    /\ new.created_at = old.created_at
                    /\ new.last_used = old.last_used
                    /\ \A changed \in {{f \in DOMAIN old : new[f] # old[f]}} :
                         /\ changed \subseteq
                                {"assigned_to", "email", "expires_at", "is_valid",
                                 "uses_remaining", "notes", "access_level"}
                         /\ \E i \in 1..Len(UpdateChoices) :
                              \A f \in changed :
                                  /\ f \in DOMAIN UpdateChoices[i]
                                  /\ new[f] = UpdateChoices[i][f]
               /\ logs' = logs
          ELSE /\ last'.ret.res = "False"
               /\ codes' = codes
               /\ logs' = logs]_vars

\* an update that sent access_level with last_used and created_at, on a code
\* never used: the level is stored, last_used is still unset
C24_Witness ==
    /\ last.op = "update"
    /\ last.ret.res = "True"
    /\ LastCode \in DOMAIN codes
    /\ codes[LastCode].access_level = "admin"
    /\ codes[LastCode].last_used = None
    /\ Cardinality(DOMAIN codes) = 2

\* C25: validate applies its checks in the order NotFound, Disabled, Expired,
\* Depleted and reports the first that applies: a disabled record past its
\* expiry yields Disabled; a record with is_valid true, past its expiry and
\* with no uses left yields Expired and is auto-disabled, never Depleted.
C25_CheckOrder ==
    [][OpStep("validate")
       => LET c == Normalize(last'.arg)
              ref == ReferenceTime(codes, now)
              res == last'.ret.res
          IN
          /\ c \notin DOMAIN codes => res = "NotFound"
          /\ (c \in DOMAIN codes /\ ~codes[c].is_valid) => res = "Disabled"
          /\ (c \in DOMAIN codes /\ codes[c].is_valid /\ codes[c].expires_at < ref)
                => res = "Expired" /\ ~codes'[c].is_valid
          /\ (/\ c \in DOMAIN codes /\ codes[c].is_valid
              /\ codes[c].expires_at >= ref /\ codes[c].uses_remaining <= 0)
                => res = "Depleted"]_vars

\* a code with no uses left and past its expiry was refused as expired
C25_Witness ==
    /\ last.op = "validate"
    /\ last.ret.res = "Expired"
    /\ codes[LastCode].uses_remaining <= 0
    /\ ~codes[LastCode].is_valid

\* C26: a validate that fails with NotFound, Disabled or Depleted leaves the
\* code table and the log table unchanged; one that fails with Expired
\* changes nothing but is_valid of the validated record.
C26_FailedValidateFrame ==
    [][OpStep("validate")
       => LET c == Normalize(last'.arg)
              res == last'.ret.res
          IN
          /\ res \in {"NotFound", "Disabled", "Depleted"}
                => codes' = codes /\ logs' = logs
          /\ res = "Expired"
                => /\ logs' = logs
                   /\ DOMAIN codes' = DOMAIN codes
                   /\ \A k \in DOMAIN codes \ {c} : codes'[k] = codes[k]
                   /\ \A f \in DOMAIN codes[c] \ {"is_valid"} :
                        codes'[c][f] = codes[c][f]]_vars

\* an expired code that had been used once was refused: its last_used and
\* uses_remaining are those the one success left
C26_Witness ==
    /\ last.op = "validate"
    /\ last.ret.res = "Expired"
    /\ hist[LastCode].succ = 1
    /\ codes[LastCode].last_used # None
    /\ codes[LastCode].uses_remaining = hist[LastCode].uses0 - 1
    /\ Len(logs) = 1

\* C27: a create that runs concurrently with another create, or with a
\* disable of another code, is not lost: once create has returned a code its
\* record is in the stored table in every later state, and the effect of the
\* concurrent operation is there as well.
C27_ConcurrentCreateKept ==
    \A c \in DOMAIN hist :
        /\ c \in DOMAIN codes
        /\ hist[c].dis => ~codes[c].is_valid

\* C28: with validate and disable interleaved at their table accesses (no
\* update), a disable that has returned success is never undone: no validate
\* that loaded the table before it stores is_valid true again.
C28_DisableNotUndone ==
    [][\A c \in DOMAIN codes :
          (c \in DOMAIN hist /\ hist[c].dis /\ ~codes[c].is_valid)
              => ~codes'[c].is_valid]_vars

\* the log entries that record a login with the code
LoginsOf(c) ==
    Cardinality({i \in 1..Len(logs) :
        logs[i].access_code = c /\ logs[i].action = "login"})

RECURSIVE SumUsed(_)
SumUsed(S) ==
    IF S = {} THEN 0
    ELSE LET c == CHOOSE x \in S : TRUE
         IN (hist[c].uses0 - codes[c].uses_remaining) + SumUsed(S \ {c})

\* C29: with create, validate, disable, list, logs and stats called one at a
\* time (no update, no storage failure), every code has as many login entries
\* in the log as its created uses minus its uses_remaining, and the
\* total_logins that stats() reports is the sum of these over all codes.
C29_LedgerAccounting ==
    /\ \A c \in DOMAIN codes : LoginsOf(c) = hist[c].uses0 - codes[c].uses_remaining
    /\ last.op = "stats" => last.ret.counts.total_logins = SumUsed(DOMAIN codes)

\* stats() after two codes were each validated once
C29_Witness ==
    /\ last.op = "stats"
    /\ last.ret.counts.total_logins = 2
    /\ Cardinality(DOMAIN codes) = 2
    /\ \A c \in DOMAIN codes : LoginsOf(c) = 1

\* the requests of the key let through with a time inside the window that
\* ends at t
AdmittedInWindow(key, t) ==
    {i \in 1..Len(RecordsOf(admitted, key)) :
        /\ admitted[key][i] > t - LimitConfig(key[2]).window
        /\ admitted[key][i] <= t}

\* C30: the rate limiter lets through, for each (client, path) key, at most
\* the configured number of requests in any window of the configured length
\* (100 per 60 s by default, 20 for /analyze-image, 10 for /generate-report);
\* a request is rejected with 429 exactly when the key already has that many
\* requests let through inside the last window; a rejected request is not
\* recorded; retry_after is never negative.
C30_RateLimitWindow ==
    /\ [](\A key \in DOMAIN admitted :
            \A i \in 1..Len(admitted[key]) :
                Cardinality(AdmittedInWindow(key, admitted[key][i]))
                    <= LimitConfig(key[2]).requests)
    /\ [][(rlast'.n = rlast.n + 1 /\ rlast'.status \in {200, 429})
          => LET key == rlast'.key IN
             /\ (rlast'.status = 429)
                   <=> (Cardinality(AdmittedInWindow(key, rtime))
                            >= LimitConfig(key[2]).requests)
             /\ rlast'.status = 429
                   => /\ admitted' = admitted
                      /\ Len(request_records'[key])
                            = Cardinality(AdmittedInWindow(key, rtime))
                      /\ rlast'.retry_after >= 0
             /\ rlast'.status = 200
                   => /\ admitted'[key] = Append(RecordsOf(admitted, key), rtime)
                      /\ Len(request_records'[key])
                            = Cardinality(AdmittedInWindow(key, rtime)) + 1]_vars

\* the eleventh /generate-report request of a minute was rejected, half a
\* minute after the first
C30_Witness ==
    /\ rlast.status = 429
    /\ rlast.key = <<"10.0.0.1", "/generate-report">>
    /\ rlast.retry_after = 30
    /\ Len(admitted[rlast.key]) = 10

====
